---- MODULE Spec2Model ----
(***************************************************************************)
(* Model of lib/api_common.js: the AccessToken entity, the API client's    *)
(* request pipeline (request), the credential lifecycle                    *)
(* (getToken / saveToken / getAccessToken / ensureAccessToken) and the     *)
(* extension registry (API.mixin).  The Credential Store is the default    *)
(* in-memory one (this.store).                                             *)
(*                                                                         *)
(* The specifications share the variables:                                 *)
(*   Spec        the request pipeline, one call at a time, with the        *)
(*               embedder saving tokens meanwhile;                         *)
(*   SpecLive    Spec with every pending await resumed (weak fairness);    *)
(*   SpecConc    the same with two calls in flight on one client;          *)
(*   SpecOpts    the same with transport defaults and per-call options;    *)
(*   SpecEnsure  ensureAccessToken and AccessToken.isValid against the     *)
(*               store and the clock;                                      *)
(*   SpecMixin   API.mixin on the prototype's method table.                *)
(***************************************************************************)
EXTENDS Integers, Sequences, FiniteSets, TLC

\* ------------------------------------------------------------------ bounds
MaxTime == 2        \* the clock Date.now() runs over 0..MaxTime
MaxRetry == 1       \* explicit retry arguments are 0..MaxRetry
MaxBatch == 2       \* a mixin batch has at most MaxBatch keys

\* ------------------------------------------------------- program constants
DefaultRetry == 3       \* request: retry = 3 when undefined
StatusLow == 200        \* request: res.statusCode < 200
StatusHigh == 204       \* request: res.statusCode > 204
CodeInvalid == 40001    \* request / ensureAccessToken: invalid credential
CodeExpired == 42001    \* request: expired credential

\* ------------------------------------------------------------------ values
Null == [null |-> TRUE]                 \* JS null / undefined

TokenStrings == {"", "T1", "T2"}
Times == 0..MaxTime
Credentials == [accessToken : TokenStrings, expireTime : Times]
StoreValues == Credentials \cup {Null}

Calls == {"c1", "c2"}                   \* logical request calls
Single == {"c1"}                        \* one call at a time

\* a url: its path, its access_token query value ("" = none) and the rest of
\* its query string
Urls == { [path |-> "svc", access_token |-> "T1", query |-> "lang=zh"],
          [path |-> "token", access_token |-> "", query |-> "grant_type=client_credential"] }
NoUrl == [path |-> "", access_token |-> "", query |-> ""]

\* the retry argument: omitted (<<>>) or an explicit number (<<r>>)
RetryArgs == {<< >>} \cup { <<r>> : r \in 0..MaxRetry }

\* transport options: one plain key and the headers mapping ("" = key absent);
\* values are tagged by origin, "d" set through setOpts, "c" passed per call
HeaderNames == {"h1", "h2"}
NoHeaders == [n \in HeaderNames |-> ""]
OptsOf(v) ==
  { o \in [timeout : {"", v}, hasHeaders : BOOLEAN, headers : [HeaderNames -> {"", v}]] :
      o.hasHeaders \/ o.headers = NoHeaders }
DefaultOpts == OptsOf("d")
CallOpts == OptsOf("c")
NoOpts == [timeout |-> "", hasHeaders |-> FALSE, headers |-> NoHeaders]   \* {} or undefined

Statuses == {199, 200, 204, 205}
ContentTypes == {"application/json", "text/plain", "image/png"}
NoRes == [status |-> 0, ctype |-> "", parse |-> "", errcode |-> 0]

OtherCodes == {41001}                   \* application error codes other than the two
\* a body: undecodable, the JSON literal null, or an object with an errcode
\* (0 stands for an absent or zero errcode)
Bodies == { [parse |-> "fail", errcode |-> 0],
            [parse |-> "null", errcode |-> 0] }
          \cup [parse : {"obj"}, errcode : {0, CodeInvalid, CodeExpired} \cup OtherCodes]

\* the authorization endpoint's success body {"access_token": .., "expires_in": ..}:
\* what an object body without errcode stands for on the token url
TokenData == [access_token |-> "T1", expires_in |-> 11]

Pending == [kind |-> "pending", name |-> "", code |-> 0, what |-> ""]
Return(what) == [kind |-> "return", name |-> "", code |-> 0, what |-> what]
Throw(name, code, what) == [kind |-> "throw", name |-> name, code |-> code, what |-> what]

VARIABLES
  tokenFromCustom,  \* this.tokenFromCustom
  store,            \* this.store, the default in-memory Credential Store
  now,              \* Date.now()
  defaults,         \* this.defaults
  opts,             \* request: the opts argument of each call
  options,          \* request: the options each call handed to the transport
  sent,             \* request: the urls each call handed to the transport, in order
  pc,               \* request: position of each call
  url,              \* request: the url argument of each call
  retry,            \* request: the retry argument of each call
  res,              \* request: the response received by each call
  log,              \* request: collaborators each call has invoked, in order
  result,           \* request: the outcome of each call
  epc,              \* ensureAccessToken: position
  etoken,           \* ensureAccessToken: var token
  etime,            \* ensureAccessToken: Date.now() read by isValid
  elog,             \* ensureAccessToken: collaborators invoked, in order
  eresult,          \* ensureAccessToken: outcome
  vtoken,           \* the AccessToken isValid was last called on
  vtime,            \* Date.now() at that call
  vresult,          \* what isValid returned
  proto,            \* API.prototype: method name -> implementation
  lastMixin         \* the last API.mixin call: its batch, the table before, the outcome

reqVars == <<pc, url, retry, opts, options, sent, res, log, result>>
ensVars == <<epc, etoken, etime, elog, eresult>>
validVars == <<vtoken, vtime, vresult>>
mixVars == <<proto, lastMixin>>
vars == <<tokenFromCustom, store, now, defaults, pc, url, retry, opts, options, sent,
          res, log, result,
          epc, etoken, etime, elog, eresult, vtoken, vtime, vresult,
          proto, lastMixin>>

\* ------------------------------------------------------------- AccessToken
\* variant: a credential still valid at its expiry instant
isValid_inclusive(token, t) == token.accessToken # "" /\ t <= token.expireTime

\* AccessToken.isValid: !!this.accessToken && Date.now() < this.expireTime
isValid(token, t) == token.accessToken # "" /\ t < token.expireTime

\* ---------------------------------------------------------- request pipeline
\* variant: the upper limit of the accepted range off by one
StatusRejected_upper(status) == status < StatusLow \/ status > StatusHigh + 1

\* res.statusCode < 200 || res.statusCode > 204
StatusRejected(status) == status < StatusLow \/ status > StatusHigh

\* contentType.includes('application/json') || contentType.includes('text/plain')
IsJsonType(ctype) == ctype = "application/json" \/ ctype = "text/plain"

\* variant: recovery attempted for every non-zero code
ShouldRecover_anyCode(code, r, custom) ==
  code # 0 /\ r > 0 /\ ~custom

\* variant: recovery attempted in externally-supplied mode too
ShouldRecover_anyMode(code, r, custom) ==
  (code = CodeInvalid \/ code = CodeExpired) /\ r > 0

\* (err.code === 40001 || err.code === 42001) && retry > 0 && !this.tokenFromCustom
ShouldRecover(code, r, custom) ==
  (code = CodeInvalid \/ code = CodeExpired) /\ r > 0 /\ ~custom

Count(s, e) == Cardinality({i \in DOMAIN s : s[i] = e})

\* Object.assign(target, source) on header mappings
AssignHeaders(target, source) ==
  [n \in HeaderNames |-> IF source[n] # "" THEN source[n] ELSE target[n]]

\* variant: the per-call headers replace the defaults' headers wholesale
MergedOptions_replace(defs, given) ==
  [timeout |-> IF given.timeout # "" THEN given.timeout ELSE defs.timeout,
   hasHeaders |-> defs.hasHeaders \/ given.hasHeaders,
   headers |-> IF given.hasHeaders THEN given.headers ELSE defs.headers]

\* request: the options built from this.defaults and opts.  Object.assign
\* copies the defaults' keys by reference, so options.headers is the defaults'
\* own headers object when they have one
MergedOptions(defs, given) ==
  [timeout |-> IF given.timeout # "" THEN given.timeout ELSE defs.timeout,
   hasHeaders |-> defs.hasHeaders \/ given.hasHeaders,
   headers |-> IF given.hasHeaders
                 THEN AssignHeaders(defs.headers, given.headers)
                 ELSE defs.headers]

\* request: this.defaults after the merge; Object.assign(options.headers,
\* opts.headers) writes into the defaults' headers object when options.headers
\* is that object
DefaultsAfterMerge(defs, given) ==
  IF given.hasHeaders /\ defs.hasHeaders
    THEN [defs EXCEPT !.headers = AssignHeaders(defs.headers, given.headers)]
    ELSE defs

\* setOpts
SetOpts(given) ==
  /\ defaults' = given

\* request, entry: the retry default and the options merge, then
\* httpx.request(url, options) is issued
Request(c, u, o, r) ==
  /\ pc[c] = "idle"
  /\ opts' = [opts EXCEPT ![c] = o]
  /\ options' = [options EXCEPT ![c] = MergedOptions(defaults, o)]
  /\ sent' = [sent EXCEPT ![c] = <<u>>]
  /\ defaults' = DefaultsAfterMerge(defaults, o)
  /\ retry' = [retry EXCEPT ![c] = IF r = << >> THEN DefaultRetry ELSE r[1]]
  /\ url' = [url EXCEPT ![c] = u]
  /\ log' = [log EXCEPT ![c] = <<"http">>]
  /\ pc' = [pc EXCEPT ![c] = "request"]
  /\ UNCHANGED <<res, result, store>>

\* request, after await httpx.request: the status check, then httpx.read is issued
HttpResponse(c, status, ctype) ==
  /\ pc[c] = "request"
  /\ res' = [res EXCEPT ![c] =
               [status |-> status,
                ctype |-> IF StatusRejected(status) THEN "" ELSE ctype,  \* headers unread
                parse |-> "", errcode |-> 0]]
  /\ IF StatusRejected(status)
        THEN /\ result' = [result EXCEPT ![c] = Throw("WeChatAPIError", 0, "status")]
             /\ pc' = [pc EXCEPT ![c] = "done"]
        ELSE /\ pc' = [pc EXCEPT ![c] = "read"]
             /\ UNCHANGED result
  /\ UNCHANGED <<url, retry, opts, options, sent, log, store>>

\* request, after await httpx.read: decoding and classification of the body;
\* on a credential rejection with budget left, saveToken(null) is called
ReadBody(c, body) ==
  /\ pc[c] = "read"
  /\ res' = [res EXCEPT ![c] =
               IF IsJsonType(res[c].ctype)
                 THEN [status |-> res[c].status, ctype |-> res[c].ctype,
                       parse |-> body.parse, errcode |-> body.errcode]
                 ELSE res[c]]                                    \* buffer not decoded
  /\ IF ~IsJsonType(res[c].ctype)
        THEN /\ result' = [result EXCEPT ![c] = Return("buffer")]
             /\ pc' = [pc EXCEPT ![c] = "done"]
             /\ UNCHANGED <<log, store>>
        ELSE IF body.parse = "fail"
        THEN /\ result' = [result EXCEPT ![c] =
                             IF res[c].ctype = "text/plain"
                               THEN Return("origin")
                               ELSE Throw("WeChatAPIError", 0, "parse")]
             /\ pc' = [pc EXCEPT ![c] = "done"]
             /\ UNCHANGED <<log, store>>
        ELSE IF body.parse = "obj" /\ body.errcode # 0
        THEN IF ShouldRecover(body.errcode, retry[c], tokenFromCustom)
               THEN /\ store' = Null
                    /\ log' = [log EXCEPT ![c] = Append(@, "saveToken")]
                    /\ pc' = [pc EXCEPT ![c] = "saved"]
                    /\ UNCHANGED result
               ELSE /\ result' = [result EXCEPT ![c] =
                                    Throw("WeChatAPIError", body.errcode, "errcode")]
                    /\ pc' = [pc EXCEPT ![c] = "done"]
                    /\ UNCHANGED <<log, store>>
        ELSE /\ result' = [result EXCEPT ![c] = Return("data")]
             /\ pc' = [pc EXCEPT ![c] = "done"]
             /\ UNCHANGED <<log, store>>
  /\ UNCHANGED <<url, retry, opts, options, sent>>

\* variant: getAccessToken resolves instead of throwing
getAccessToken_swallowed == Return("data")

\* getAccessToken: throws before anything else
getAccessToken == Throw("Error", 0, "super can't set access token")

\* variant: the rejection of getAccessToken never settles the call
CallGetAccessToken_unsettled(c) ==
  /\ pc[c] = "saved"
  /\ UNCHANGED <<pc, url, retry, opts, options, sent, res, log, result, store>>

\* variant: getAccessToken is called without awaiting saveToken(null)
CallGetAccessToken_early(c) ==
  /\ pc[c] \in {"read", "saved"}
  /\ log' = [log EXCEPT ![c] = Append(@, "getAccessToken")]
  /\ result' = [result EXCEPT ![c] = getAccessToken]
  /\ pc' = [pc EXCEPT ![c] = "done"]
  /\ UNCHANGED <<url, retry, opts, options, sent, res, store>>

\* request, after await this.saveToken(null): this.getAccessToken() is called
\* and its rejection ends the call
CallGetAccessToken(c) ==
  /\ pc[c] = "saved"
  /\ log' = [log EXCEPT ![c] = Append(@, "getAccessToken")]
  /\ result' = [result EXCEPT ![c] = getAccessToken]
  /\ pc' = [pc EXCEPT ![c] = "done"]
  /\ UNCHANGED <<url, retry, opts, options, sent, res, store>>

\* the caller receives the outcome; the slot is free for another call
Settle(c) ==
  /\ pc[c] = "done"
  /\ pc' = [pc EXCEPT ![c] = "idle"]
  /\ url' = [url EXCEPT ![c] = NoUrl]
  /\ retry' = [retry EXCEPT ![c] = 0]
  /\ opts' = [opts EXCEPT ![c] = NoOpts]
  /\ options' = [options EXCEPT ![c] = NoOpts]
  /\ sent' = [sent EXCEPT ![c] = << >>]
  /\ res' = [res EXCEPT ![c] = NoRes]
  /\ log' = [log EXCEPT ![c] = << >>]
  /\ result' = [result EXCEPT ![c] = Pending]
  /\ UNCHANGED store

\* the embedder stores a credential (or none) through the saveToken hook
SaveToken(t) ==
  /\ store' = t

\* ------------------------------------------------------ credential lifecycle
Tick ==
  /\ now < MaxTime
  /\ now' = now + 1

\* isValid called on an AccessToken
IsValidCall(t) ==
  /\ vtoken' = t
  /\ vtime' = now
  /\ vresult' = isValid(t, now)

NoOutcome == [out |-> Pending, token |-> Null]

\* variant: the mode test inverted
ensureOutcome_inverted(token, t, custom) ==
  IF token # Null /\ isValid([accessToken |-> token.accessToken,
                              expireTime |-> token.expireTime], t)
    THEN [out |-> Return("accessToken"),
          token |-> [accessToken |-> token.accessToken, expireTime |-> token.expireTime]]
    ELSE IF ~custom
    THEN [out |-> Throw("WeChatAPIError", CodeInvalid, "accessToken Error"), token |-> Null]
    ELSE [out |-> Throw("Error", 0, "can't set access token"), token |-> Null]

\* variant: any stored token is returned, isValid not consulted
ensureOutcome_noCheck(token, t, custom) ==
  IF token # Null
    THEN [out |-> Return("accessToken"),
          token |-> [accessToken |-> token.accessToken, expireTime |-> token.expireTime]]
    ELSE IF custom
    THEN [out |-> Throw("WeChatAPIError", CodeInvalid, "accessToken Error"), token |-> Null]
    ELSE [out |-> Throw("Error", 0, "can't set access token"), token |-> Null]

\* ensureAccessToken, after await this.getToken(): the three exits
ensureOutcome(token, t, custom) ==
  IF token # Null /\ isValid([accessToken |-> token.accessToken,
                              expireTime |-> token.expireTime], t)
    THEN [out |-> Return("accessToken"),
          token |-> [accessToken |-> token.accessToken, expireTime |-> token.expireTime]]
    ELSE IF custom
    THEN [out |-> Throw("WeChatAPIError", CodeInvalid, "accessToken Error"), token |-> Null]
    ELSE [out |-> Throw("Error", 0, "can't set access token"), token |-> Null]

\* ensureAccessToken, entry: this.getToken() (the default hook reads this.store)
EnsureAccessToken ==
  /\ epc = "idle"
  /\ etoken' = store
  /\ elog' = <<"getToken">>
  /\ epc' = "getToken"
  /\ UNCHANGED <<etime, eresult>>

\* ensureAccessToken, after the await: validity check and exit
EnsureCheck ==
  /\ epc = "getToken"
  /\ etime' = now
  /\ eresult' = ensureOutcome(etoken, now, tokenFromCustom)
  /\ epc' = "done"
  /\ UNCHANGED <<etoken, elog>>

\* the caller receives the outcome of ensureAccessToken
EnsureSettle ==
  /\ epc = "done"
  /\ epc' = "idle"
  /\ etoken' = Null
  /\ etime' = 0
  /\ elog' = << >>
  /\ eresult' = NoOutcome

\* ------------------------------------------------------- extension registry
Names == {"request", "foo", "bar"}
Fns == {"fn1", "fn2"}
Absent == ""                             \* no own property of that name
BaseProto == [n \in Names |-> IF n = "request" THEN "base" ELSE Absent]

\* an object to mix in: its keys in enumeration order, each with its value
Entries == [key : Names, fn : Fns]
Batches ==
  { b \in UNION { [1..n -> Entries] : n \in 0..MaxBatch } :
      \A i, j \in DOMAIN b : i # j => b[i].key # b[j].key }

\* variant: the test made on an object that never has the key
hasOwnProperty_wrongObject(table, key) == FALSE

\* API.prototype.hasOwnProperty(key)
hasOwnProperty(table, key) == table[key] # Absent

\* variant: every key tested before any is installed
RECURSIVE mixin_validateFirst(_, _, _)
mixin_validateFirst(table, obj, i) ==
  IF \E j \in DOMAIN obj : j >= i /\ table[obj[j].key] # Absent
    THEN [table |-> table, threw |-> TRUE,
          key |-> obj[CHOOSE j \in DOMAIN obj :
                        /\ j >= i /\ table[obj[j].key] # Absent
                        /\ \A k \in DOMAIN obj :
                             (k >= i /\ table[obj[k].key] # Absent) => j <= k].key]
    ELSE IF i > Len(obj)
    THEN [table |-> table, threw |-> FALSE, key |-> ""]
    ELSE mixin_validateFirst([table EXCEPT ![obj[i].key] = obj[i].fn], obj, i + 1)

\* API.mixin: the for-in loop from the i-th key on
RECURSIVE mixin(_, _, _)
mixin(table, obj, i) ==
  IF i > Len(obj)
    THEN [table |-> table, threw |-> FALSE, key |-> ""]
    ELSE IF hasOwnProperty(table, obj[i].key)
    THEN [table |-> table, threw |-> TRUE, key |-> obj[i].key]
    ELSE mixin([table EXCEPT ![obj[i].key] = obj[i].fn], obj, i + 1)

NoMixin == [obj |-> << >>, before |-> BaseProto, threw |-> FALSE, key |-> ""]

\* API.mixin(obj)
Mixin(obj) ==
  LET r == mixin(proto, obj, 1) IN
    /\ proto' = r.table
    /\ lastMixin' = [obj |-> obj, before |-> proto, threw |-> r.threw, key |-> r.key]

\* ----------------------------------------------------------- specifications
Init ==
  /\ tokenFromCustom \in BOOLEAN
  /\ store = Null
  /\ now = 0
  /\ defaults = NoOpts
  /\ opts = [c \in Calls |-> NoOpts]
  /\ options = [c \in Calls |-> NoOpts]
  /\ sent = [c \in Calls |-> << >>]
  /\ pc = [c \in Calls |-> "idle"]
  /\ url = [c \in Calls |-> NoUrl]
  /\ retry = [c \in Calls |-> 0]
  /\ res = [c \in Calls |-> NoRes]
  /\ log = [c \in Calls |-> << >>]
  /\ result = [c \in Calls |-> Pending]
  /\ epc = "idle"
  /\ etoken = Null
  /\ etime = 0
  /\ elog = << >>
  /\ eresult = NoOutcome
  /\ vtoken = Null
  /\ vtime = 0
  /\ vresult = FALSE
  /\ proto = BaseProto
  /\ lastMixin = NoMixin

RequestNext(active, optsGiven, saved) ==
  \/ \E c \in active, u \in Urls, o \in optsGiven, r \in RetryArgs :
        Request(c, u, o, r) /\ UNCHANGED <<tokenFromCustom, now, ensVars, validVars, mixVars>>
  \/ \E c \in active, s \in Statuses, t \in ContentTypes :
        HttpResponse(c, s, t) /\ UNCHANGED <<tokenFromCustom, defaults, now, ensVars, validVars, mixVars>>
  \/ \E c \in active, b \in Bodies :
        ReadBody(c, b) /\ UNCHANGED <<tokenFromCustom, defaults, now, ensVars, validVars, mixVars>>
  \/ \E c \in active :
        CallGetAccessToken(c) /\ UNCHANGED <<tokenFromCustom, defaults, now, ensVars, validVars, mixVars>>
  \/ \E c \in active :
        Settle(c) /\ UNCHANGED <<tokenFromCustom, defaults, now, ensVars, validVars, mixVars>>
  \/ \E t \in saved :
        SaveToken(t) /\ UNCHANGED <<tokenFromCustom, defaults, now, reqVars, ensVars, validVars, mixVars>>

\* one call at a time, no per-call options, defaults never set
Next == RequestNext(Single, {NoOpts}, StoreValues)

Spec == Init /\ [][Next]_vars

\* the pipeline's awaits resume: the transport answers (or times out with an
\* error status) and the event loop runs every pending continuation
Resume(c) ==
  \/ \E s \in Statuses, t \in ContentTypes :
        HttpResponse(c, s, t) /\ UNCHANGED <<tokenFromCustom, defaults, now, ensVars, validVars, mixVars>>
  \/ \E b \in Bodies :
        ReadBody(c, b) /\ UNCHANGED <<tokenFromCustom, defaults, now, ensVars, validVars, mixVars>>
  \/ CallGetAccessToken(c) /\ UNCHANGED <<tokenFromCustom, defaults, now, ensVars, validVars, mixVars>>

SpecLive == Init /\ [][Next]_vars /\ \A c \in Single : WF_vars(Resume(c))

\* the same pipeline with two calls in flight, the embedder saving nothing or
\* a credential with a token and the latest expiry
FreshCredentials == {t \in Credentials : t.accessToken # "" /\ t.expireTime = MaxTime}
NextConc == RequestNext(Calls, {NoOpts}, FreshCredentials \cup {Null})

SpecConc == Init /\ [][NextConc]_vars

\* the same pipeline with transport defaults and per-call options, the
\* embedder saving no credential
NextOpts ==
  \/ \E o \in DefaultOpts :
        SetOpts(o) /\ UNCHANGED <<tokenFromCustom, store, now, reqVars, ensVars, validVars, mixVars>>
  \/ RequestNext(Single, CallOpts, {Null})

SpecOpts == Init /\ [][NextOpts]_vars

NextEnsure ==
  \/ Tick /\ UNCHANGED <<tokenFromCustom, defaults, store, reqVars, ensVars, validVars, mixVars>>
  \/ \E t \in StoreValues :
        SaveToken(t) /\ UNCHANGED <<tokenFromCustom, defaults, now, reqVars, ensVars, validVars, mixVars>>
  \/ \E t \in Credentials :
        IsValidCall(t) /\ UNCHANGED <<tokenFromCustom, defaults, store, now, reqVars, ensVars, mixVars>>
  \/ EnsureAccessToken /\ UNCHANGED <<tokenFromCustom, defaults, store, now, reqVars, validVars, mixVars>>
  \/ EnsureCheck /\ UNCHANGED <<tokenFromCustom, defaults, store, now, reqVars, validVars, mixVars>>
  \/ EnsureSettle /\ UNCHANGED <<tokenFromCustom, defaults, store, now, reqVars, validVars, mixVars>>

SpecEnsure == Init /\ [][NextEnsure]_vars

NextMixin ==
  \E obj \in Batches :
    Mixin(obj) /\ UNCHANGED <<tokenFromCustom, defaults, store, now, reqVars, ensVars, validVars>>

SpecMixin == Init /\ [][NextMixin]_vars

\* ================================================================== claims
Range(s) == {s[i] : i \in DOMAIN s}
Rejections == {CodeInvalid, CodeExpired}
HttpCalls(c) == Count(log[c], "http")
Invalidations(c) == Count(log[c], "saveToken")
Acquisitions(c) == Count(log[c], "getAccessToken")

\* C1: on a self-managed client a call re-issues the HTTP call at most
\* `retry` times and only after a 40001/42001 response; any other non-zero
\* error code is raised with that code after exactly one HTTP call whatever
\* the budget; a 40001/42001 response with budget 0 is raised with its code.
C1_RetryOnlyOnRejection ==
  \A c \in Calls :
    ~tokenFromCustom =>
      /\ pc[c] # "idle" => HttpCalls(c) - 1 <= retry[c]
      /\ HttpCalls(c) > 1 => "saveToken" \in Range(log[c])
      /\ "saveToken" \in Range(log[c]) =>
           res[c].parse = "obj" /\ res[c].errcode \in Rejections
      /\ (res[c].parse = "obj" /\ res[c].errcode \notin (Rejections \cup {0})) =>
           /\ pc[c] = "done"
           /\ result[c].kind = "throw" /\ result[c].code = res[c].errcode
           /\ HttpCalls(c) = 1
      /\ (res[c].parse = "obj" /\ res[c].errcode \in Rejections /\ retry[c] = 0) =>
           /\ pc[c] = "done"
           /\ result[c].kind = "throw" /\ result[c].code = res[c].errcode

C1_Witness ==
  \E c \in Calls :
    /\ ~tokenFromCustom /\ pc[c] = "done" /\ retry[c] = DefaultRetry
    /\ res[c].errcode = 41001 /\ result[c].code = 41001 /\ HttpCalls(c) = 1

\* C2: a call that received a 40001/42001 response with budget left on a
\* self-managed client ends having issued a retried HTTP call, the store then
\* holding a credential other than the rejected one, whose token is the
\* access_token of the retried url.
C2_RetryCarriesNewCredential ==
  \A c \in Calls :
    (~tokenFromCustom /\ pc[c] = "done" /\ "saveToken" \in Range(log[c])) =>
      /\ HttpCalls(c) >= 2
      /\ store # Null
      /\ url[c].access_token = store.accessToken

\* C3: within one call the number of invalidations (saveToken(null)) equals
\* the number of retried HTTP calls and never exceeds the budget, and every
\* invalidation comes with one re-acquisition.
C3_InvalidationPerRetry ==
  \A c \in Calls :
    pc[c] = "done" =>
      /\ Invalidations(c) = HttpCalls(c) - 1
      /\ Invalidations(c) <= retry[c]
      /\ Acquisitions(c) = Invalidations(c)

\* C4: in externally-supplied mode ensureAccessToken calls nothing but the
\* store's load hook; it returns the stored credential when that is valid and
\* otherwise fails with code 40001.
C4_ExternalFailsFast ==
  (tokenFromCustom /\ epc = "done") =>
    /\ elog = <<"getToken">>
    /\ IF etoken # Null /\ etoken.accessToken # "" /\ etime < etoken.expireTime
         THEN eresult.out.kind = "return" /\ eresult.token = etoken
         ELSE eresult.out.kind = "throw" /\ eresult.out.code = 40001

C4_Witness ==
  /\ tokenFromCustom /\ epc = "done"
  /\ etoken # Null /\ etoken.accessToken = "T1" /\ etoken.expireTime = etime
  /\ eresult.out.kind = "throw" /\ eresult.out.code = 40001

\* C5: in self-managed mode, with no credential or an expired one in the
\* store, ensureAccessToken calls the Token Acquirer and does not fail.
C5_SelfManagedAcquires ==
  (~tokenFromCustom /\ epc = "done"
     /\ (etoken = Null \/ etoken.accessToken = "" \/ etime >= etoken.expireTime)) =>
    /\ "getAccessToken" \in Range(elog)
    /\ eresult.out.kind = "return"

\* C6: in externally-supplied mode a 40001/42001 response ends the call at
\* once with that error, for every budget: the store is untouched, nothing is
\* acquired and no further HTTP call is issued.
C6_ExternalNeverRecovers ==
  [][\A c \in Calls :
       (tokenFromCustom /\ pc[c] = "read"
          /\ res'[c].parse = "obj" /\ res'[c].errcode \in Rejections) =>
         /\ pc'[c] = "done"
         /\ result'[c].kind = "throw" /\ result'[c].code = res'[c].errcode
         /\ store' = store
         /\ log'[c] = <<"http">>]_vars

C6_Witness ==
  \E c \in Calls :
    /\ tokenFromCustom /\ pc[c] = "done" /\ retry[c] = DefaultRetry
    /\ res[c].errcode = 40001 /\ result[c].code = 40001 /\ log[c] = <<"http">>

\* C7: isValid reports a credential valid exactly when its token is non-empty
\* and the current time is strictly before its expiry.
C7_ValidIffFreshAndNonEmpty ==
  vtoken # Null =>
    (vresult <=> (vtoken.accessToken # "" /\ vtime < vtoken.expireTime))

C7_Witness ==
  /\ vtoken # Null /\ vtoken.accessToken = "T1"
  /\ vtoken.expireTime = vtime /\ vtime > 0 /\ ~vresult

\* C8: a mixin whose batch holds a name already on the prototype raises, and
\* every method installed before the call keeps its implementation.
C8_DuplicateRejected ==
  /\ (\E i \in DOMAIN lastMixin.obj : lastMixin.before[lastMixin.obj[i].key] # Absent)
       => lastMixin.threw
  /\ \A n \in Names : lastMixin.before[n] # Absent => proto[n] = lastMixin.before[n]

C8_Witness ==
  /\ lastMixin.threw /\ lastMixin.key = "foo"
  /\ lastMixin.before["foo"] = "fn1"
  /\ lastMixin.obj = << [key |-> "foo", fn |-> "fn2"] >>
  /\ proto["foo"] = "fn1"

\* C9 (as claimed): a mixin that raises leaves the method table as it was.
C9_Atomic ==
  lastMixin.threw => proto = lastMixin.before

\* C9 (amended): a mixin that raises has installed exactly the names that
\* precede the first colliding name in the batch; the colliding name, the
\* names after it and every earlier method are as before the call.
C9_PrefixInstalled ==
  lastMixin.threw =>
    \E i \in DOMAIN lastMixin.obj :
      /\ lastMixin.obj[i].key = lastMixin.key
      /\ lastMixin.before[lastMixin.key] # Absent
      /\ \A j \in 1..(i - 1) : lastMixin.before[lastMixin.obj[j].key] = Absent
      /\ \A n \in Names :
           proto[n] = IF \E j \in 1..(i - 1) : lastMixin.obj[j].key = n
                        THEN lastMixin.obj[CHOOSE j \in 1..(i - 1) :
                                             lastMixin.obj[j].key = n].fn
                        ELSE lastMixin.before[n]

C9_Witness ==
  /\ lastMixin.threw /\ lastMixin.key = "request"
  /\ Len(lastMixin.obj) = 2 /\ lastMixin.obj[1].key = "bar"
  /\ lastMixin.before["bar"] = Absent /\ proto["bar"] = lastMixin.obj[1].fn

\* C10: a status outside [200, 204], and an undecodable body of a JSON
\* response, each end the call with an error after one HTTP call, with no
\* invalidation and no acquisition, for every budget and in both modes.
C10_FatalNotRetried ==
  \A c \in Calls :
    /\ (res[c].status # 0 /\ (res[c].status < 200 \/ res[c].status > 204)) =>
         /\ pc[c] = "done"
         /\ result[c].kind = "throw"
         /\ log[c] = <<"http">>
    /\ (res[c].ctype = "application/json" /\ res[c].parse = "fail") =>
         /\ pc[c] = "done"
         /\ result[c].kind = "throw"
         /\ log[c] = <<"http">>

C10_Witness ==
  \E c \in Calls :
    /\ pc[c] = "done" /\ retry[c] = DefaultRetry /\ res[c].status = 205
    /\ result[c].kind = "throw" /\ log[c] = <<"http">>

\* C11 (as claimed): the HTTP calls of a request never outnumber its budget.
C11_AttemptBudget ==
  \A c \in Calls : pc[c] # "idle" => HttpCalls(c) <= retry[c]

\* C11 (amended): every request terminates, whatever the server answers; it
\* makes at most one HTTP call more than its retry budget, and the budget is
\* 3 when the caller gives none.
C11_TerminatesWithinRetries ==
  /\ [](\A c \in Calls :
          pc[c] # "idle" =>
            /\ HttpCalls(c) <= retry[c] + 1
            /\ retry[c] \in (0..MaxRetry) \cup {3})
  /\ \A c \in Single : (pc[c] = "request") ~> (pc[c] = "done")

C11_Witness ==
  \E c \in Calls :
    /\ ~tokenFromCustom /\ pc[c] = "done" /\ retry[c] = 3
    /\ res[c].errcode = 40001 /\ result[c].kind = "throw" /\ HttpCalls(c) = 1

\* C12: once an acquisition has succeeded at time t0 (the authorization
\* endpoint answered with a token and a lifetime), the store holds the
\* credential made of that token with expiry t0 + (expires_in - 10).
C12_AcquiredCredentialStored ==
  \A c \in Calls :
    (pc[c] = "done" /\ url[c].path = "token"
       /\ res[c].parse = "obj" /\ res[c].errcode = 0 /\ result[c].kind = "return") =>
      /\ store # Null
      /\ store.accessToken = TokenData.access_token
      /\ store.expireTime = now + (TokenData.expires_in - 10)

\* C13: the options handed to the transport are the defaults overlaid with
\* the per-call options: for a plain key the per-call value when given, else
\* the default; for headers every default header and every per-call header,
\* the per-call value winning on a shared name.
C13_OptionsOverlay ==
  [][\A c \in Calls :
       (pc[c] = "idle" /\ pc'[c] = "request") =>
         /\ options'[c].timeout =
              IF opts'[c].timeout # "" THEN opts'[c].timeout ELSE defaults.timeout
         /\ \A n \in HeaderNames :
              options'[c].headers[n] =
                IF opts'[c].headers[n] # "" THEN opts'[c].headers[n]
                                            ELSE defaults.headers[n]]_vars

C13_Witness ==
  \E c \in Calls :
    /\ pc[c] = "request"
    /\ opts[c] = [timeout |-> "", hasHeaders |-> TRUE, headers |-> [h1 |-> "", h2 |-> "c"]]
    /\ options[c] = [timeout |-> "d", hasHeaders |-> TRUE, headers |-> [h1 |-> "d", h2 |-> "c"]]

\* C18: a request leaves the instance's transport defaults, their headers
\* included, as they were before the call.
C18_DefaultsUntouched ==
  [][\A c \in Calls :
       (pc[c] = "idle" /\ pc'[c] = "request") => defaults' = defaults]_vars

\* C14: a call that entered recovery ends having handed the transport a
\* second url with the path and the other query parameters of the first, an
\* access_token of the first being replaced by the newly acquired token.
C14_RetriedUrlKeepsRest ==
  \A c \in Calls :
    (pc[c] = "done" /\ "saveToken" \in Range(log[c])) =>
      /\ Len(sent[c]) >= 2
      /\ sent[c][2].path = sent[c][1].path
      /\ sent[c][2].query = sent[c][1].query
      /\ sent[c][1].access_token # "" =>
           (store # Null /\ sent[c][2].access_token = store.accessToken)

\* C15: within a call the steps are strictly ordered, whatever the other call
\* does: the store is invalidated only once the HTTP exchange has been
\* answered and read, the acquisition starts only after the invalidation, an
\* HTTP exchange starts only when the call has none pending, and while an
\* exchange is in flight it is the call's latest step.
StepOrder == <<"http", "saveToken", "getAccessToken">>
C15_StrictOrder ==
  [][\A c \in Calls :
       /\ log'[c] # log[c] =>
            \/ log'[c] = << >>
            \/ /\ log'[c] = <<"http">>
               /\ pc[c] = "idle"
            \/ /\ log'[c] = Append(log[c], "saveToken")
               /\ log[c][Len(log[c])] = "http"
               /\ pc[c] = "read"
               /\ res[c].status # 0
               /\ store' = Null
            \/ /\ log'[c] = Append(log[c], "getAccessToken")
               /\ log[c][Len(log[c])] = "saveToken"
               /\ pc[c] = "saved"
       /\ log'[c] = SubSeq(StepOrder, 1, Len(log'[c]))
       /\ pc'[c] = "request" => log'[c][Len(log'[c])] = "http"
    ]_vars

C15_Witness ==
  /\ log["c1"] = StepOrder
  /\ pc["c2"] = "request"
  /\ log["c2"] = <<"http">>

\* C16: an acquisition call (the request to the token endpoint) that is
\* answered with an error code ends with that error raised to the caller,
\* after one HTTP call, no invalidation and no further acquisition.
C16_AcquisitionErrorPropagated ==
  \A c \in Calls :
    (pc[c] = "done" /\ url[c].path = "token" /\ res[c].errcode # 0) =>
      /\ result[c] = Throw("WeChatAPIError", res[c].errcode, "errcode")
      /\ log[c] = <<"http">>

\* C17: a call that invalidates the store after a rejection of the credential
\* it sent destroys nothing but that credential: the store then holds nothing
\* or the credential whose token the call carried.
C17_FreshCredentialSurvives ==
  [][\A c \in Calls :
       (pc[c] = "read" /\ pc'[c] = "saved" /\ url[c].access_token # "") =>
         (store = Null \/ store.accessToken = url[c].access_token)
    ]_vars

\* C19: when a rejection starts recovery the store is emptied, and the failure
\* of the acquisition that follows ends the call with the acquisition's error:
\* no HTTP call is added to the one made and the store is not written again.
C19_FailedRecoveryRaises ==
  [][\A c \in Calls :
       /\ (pc[c] = "read" /\ pc'[c] = "saved") => store' = Null
       /\ (pc[c] = "saved" /\ pc'[c] = "done") =>
            /\ result'[c] = Throw("Error", 0, "super can't set access token")
            /\ HttpCalls(c)' = 1
            /\ sent'[c] = sent[c]
            /\ Len(sent[c]) = 1
            /\ store' = store
    ]_vars

C19_Witness ==
  \E c \in Calls :
    /\ pc[c] = "done"
    /\ res[c].errcode \in Rejections
    /\ log[c] = <<"http", "saveToken", "getAccessToken">>
    /\ result[c].what = "super can't set access token"
    /\ store = Null

\* C20: in both modes a credential returned by ensureAccessToken has a
\* non-empty token and an expiry later than the time of the return, and no
\* step of ensureAccessToken changes the store.
C20_ReturnsValidNeverWrites ==
  [][/\ (epc = "getToken" /\ epc' = "done" /\ eresult'.out.kind = "return") =>
          /\ eresult'.token # Null
          /\ eresult'.token.accessToken # ""
          /\ now < eresult'.token.expireTime
     /\ epc' # epc => store' = store
    ]_vars

C20_Witness ==
  /\ epc = "done"
  /\ eresult.out.kind = "return"
  /\ eresult.token.expireTime = etime + 1
  /\ store = eresult.token

====
